---- MODULE Spec2Model ----
(***************************************************************************)
(* Model of utils/labelled_image_preparation.py: data_to_labelled_img.     *)
(* One call of the function is one behaviour: Init fixes the arguments and *)
(* the answers of the external collaborators (the labeler local_min_max    *)
(* and the four transforms), and each action is one block of the function  *)
(* body, in program order.  Python values are modelled by what the         *)
(* interpreter does with them: strings are sequences of characters,        *)
(* slices clamp and wrap negative bounds, eval() strips trailing blanks.   *)
(***************************************************************************)
EXTENDS Integers, Sequences, FiniteSets, TLC

\* ------------------------------------------------------------------ bounds
MaxN == 5
MaxL == 5
MaxW == 4
MaxPad == 1
MaxStrat == 3

\* ----------------------------------------------------------- small helpers
Min(a, b) == IF a < b THEN a ELSE b
Max(a, b) == IF a > b THEN a ELSE b
Range(s) == {s[i] : i \in 1..Len(s)}
Odd(n) == n % 2 = 1

\* Sequences over S of length 0..n.
SeqUpTo(S, n) == UNION {[1..k -> S] : k \in 0..n}

\* 1-based position of x in s (x occurs in s).
IndexOf(s, x) == CHOOSE i \in 1..Len(s) : s[i] = x

\* ------------------------------------------------------------ Python values
\* a[start:stop] on a sequence: negative bounds count from the end, both
\* bounds are clamped to 0..len(a).  start and stop are 0-based.
PyNorm(i, n) == IF i < 0 THEN Max(i + n, 0) ELSE Min(i, n)
PySlice(a, start, stop) ==
    SubSeq(a, PyNorm(start, Len(a)) + 1, PyNorm(stop, Len(a)))

\* The half rounded down where the code rounds it up.
CeilHalfRoundedDown(L) == L \div 2

\* np.ceil(label_window_size/2) and np.int(label_window_size/2), for L >= 0.
CeilHalf(L) == (L + 1) \div 2
HalfWindow(L) == L \div 2

\* Strategy names as Python strings.
GASFName == <<"G", "A", "S", "F">>
GADFName == <<"G", "A", "D", "F">>
RPName == <<"R", "P">>
MTFName == <<"M", "T", "F">>
ValidNames == {GASFName, GADFName, RPName, MTFName}
\* Strings that are not strategy names: an unrelated word, and GASF followed
\* by a blank.
FooName == <<"F", "O", "O">>
GASFBlank == <<"G", "A", "S", "F", " ">>
Names == ValidNames \cup {FooName, GASFBlank}

\* The image_trf_strat argument: a str or a list of str.
StrArg(s) == [type |-> "str", str |-> s, list |-> <<>>]
ListArg(l) == [type |-> "list", str |-> <<>>, list |-> l]

\* a in b for two strings: substring test.
IsSubstring(a, b) ==
    \E s \in 0..(Len(b) - Len(a)) : SubSeq(b, s + 1, s + Len(a)) = a

\* key in image_trf_strat
PyIn(key, strat) ==
    IF strat.type = "str" THEN IsSubstring(key, strat.str)
    ELSE key \in Range(strat.list)

\* len(image_trf_strat)
PyLen(strat) == IF strat.type = "str" THEN Len(strat.str) ELSE Len(strat.list)

\* eval() strips trailing blanks of the expression before parsing it.
RECURSIVE RStrip(_)
RStrip(s) ==
    IF Len(s) > 0 /\ s[Len(s)] = " " THEN RStrip(SubSeq(s, 1, Len(s) - 1))
    ELSE s

\* ------------------------------------------------------------------ arrays
Unbound == [bound |-> FALSE, shape |-> <<>>, data |-> <<>>]
Array(shape, data) == [bound |-> TRUE, shape |-> shape, data |-> data]

\* series[1:]/series[:-1] - 1, each quotient kept as an exact fraction
\* (series[j+1] - series[j]) / series[j].
Return(prev, cur) == [num |-> cur - prev, den |-> prev]

\* The returns taken one step late: series[2:]/series[1:-1] - 1.
ReturnSeriesShifted(s) ==
    LET a == PySlice(s, 2, Len(s))
        b == PySlice(s, 1, -1)
    IN [j \in 1..Len(a) |-> Return(b[j], a[j])]

ReturnSeries(s) ==
    LET a == PySlice(s, 1, Len(s))
        b == PySlice(s, 0, -1)
    IN [j \in 1..Len(a) |-> Return(b[j], a[j])]

\* pd.get_dummies: one 0/1 column per category present, columns sorted.
Alphabetical == <<"Buy", "Hold", "Other", "Sell">>
GetDummies(labels) ==
    LET cols == SelectSeq(Alphabetical, LAMBDA c : c \in Range(labels))
    IN [columns |-> cols,
        rows |-> [t \in 1..Len(labels) |->
                    [c \in 1..Len(cols) |-> IF labels[t] = cols[c] THEN 1 ELSE 0]]]

\* dummies[['Sell', 'Buy', 'Hold']]
CanonicalColumns == <<"Sell", "Buy", "Hold">>
HasColumns(d, wanted) == Range(wanted) \subseteq Range(d.columns)
SelectColumns(d, wanted) ==
    [columns |-> wanted,
     rows |-> [t \in 1..Len(d.rows) |->
                 [c \in 1..Len(wanted) |-> d.rows[t][IndexOf(d.columns, wanted[c])]]]]

\* The price basis' first index used for both bases.
LabelStartOneBasis(W, ur) == W - 1

\* First index of the label/price slice.
LabelStart(W, ur) == IF ur THEN W ELSE W - 1

\* The slice stop written -np.int(label_window_size/2).
SliceStop(L) == 0 - HalfWindow(L)

\* ------------------------------------------------- external collaborators
\* A transform (GASF, GADF, RP, MTF): one image per full W-sized window of
\* the series it is handed, in window order.  An image is kept as the
\* transform's tag, the window it encodes and its side length.
NumWindows(s, W) == Max(0, Len(s) - W + 1)
TransformImages(trf, s, W, side) ==
    LET n == NumWindows(s, W)
    IN Array(IF n = 0 THEN <<0>> ELSE <<n, side, side>>,
             [i \in 1..n |-> [trf |-> trf, window |-> SubSeq(s, i, i + W - 1),
                              side |-> side]])

\* ---------------------------------------------------------------- stacking
\* np.moveaxis(images, 0, -1) first turns the list into one array, which
\* numpy refuses when the member shapes differ.
ShapesIgnored(arrs) == TRUE

ShapesAgree(arrs) ==
    \A j, k \in 1..Len(arrs) : arrs[j].shape = arrs[k].shape

\* Channels-last with the members taken in reverse order.
MoveAxisReversed(arrs) ==
    Array(arrs[1].shape \o <<Len(arrs)>>,
          [i \in 1..arrs[1].shape[1] |->
             [c \in 1..Len(arrs) |-> arrs[Len(arrs) + 1 - c].data[i]]])

\* Channels-last: element [i, ..., c] is member c's element [i, ...].
MoveAxis(arrs) ==
    Array(arrs[1].shape \o <<Len(arrs)>>,
          [i \in 1..arrs[1].shape[1] |-> [c \in 1..Len(arrs) |-> arrs[c].data[i]]])

\* eval("images_" + trf) in a scope where env maps each images_<name>
\* variable to its value (Unbound when never assigned).
EvalImages(trf, env) ==
    LET id == RStrip(trf)
    IN IF id \in ValidNames /\ env[id].bound THEN env[id] ELSE Unbound

\* ------------------------------------------------------------------- state
VARIABLES
    data,               \* data[column_name].values
    label_window_size, image_window_size, image_trf_strat, padding_RP,
    use_returns,
    labeller,           \* the Strategy column local_min_max answers with
    rp_shrink,          \* rows/columns by which RP's images are smaller than W
    pc,
    series, labelled_pd, dummies, label_colnames,
    image_labels, price_at_image,
    images_GASF, images_GADF, images_RP, images_MTF,
    label_names, images,
    printed,            \* which message the call printed
    ret,                \* how the call ended
    labeller_calls, transform_calls

args == <<data, label_window_size, image_window_size, image_trf_strat,
          padding_RP, use_returns, labeller, rp_shrink>>
locals == <<series, labelled_pd, dummies, label_colnames, image_labels,
            price_at_image, images_GASF, images_GADF, images_RP, images_MTF,
            label_names, images>>
vars == <<args, locals, pc, printed, ret, labeller_calls, transform_calls>>

LocalImages ==
    (GASFName :> images_GASF) @@ (GADFName :> images_GADF) @@
    (RPName :> images_RP) @@ (MTFName :> images_MTF)

NoDummies == [columns |-> <<>>, rows |-> <<>>]
NoTable == [Series |-> <<>>, Strategy |-> <<>>]

\* ------------------------------------------------------------------ inputs
\* A series of length n rising by one from first.
Ramp(n, first) == [t \in 1..n |-> first + t - 1]
\* Labels cycling through Sell, Buy, Hold from offset r.
Cycle(n, r) == [t \in 1..n |-> CanonicalColumns[((t + r) % 3) + 1]]

AllLabels == {"Sell", "Buy", "Hold", "Other"}
Selections == {StrArg(s) : s \in Names \cup {<<>>}}
                 \cup {ListArg(l) : l \in SeqUpTo(Names, MaxStrat)}

InitWith(Ds, Ls, Ws, Strats, Pads, Rets, Labs, Shrinks) ==
    /\ data \in Ds
    /\ label_window_size \in Ls
    /\ image_window_size \in Ws
    /\ image_trf_strat \in Strats
    /\ padding_RP \in Pads
    /\ use_returns \in Rets
    /\ labeller \in {l \in Labs : Len(l) = Len(data)}
    /\ rp_shrink \in Shrinks
    /\ pc = "check_window"
    /\ series = <<>>
    /\ labelled_pd = NoTable
    /\ dummies = NoDummies
    /\ label_colnames = <<>>
    /\ image_labels = <<>>
    /\ price_at_image = <<>>
    /\ images_GASF = Unbound
    /\ images_GADF = Unbound
    /\ images_RP = Unbound
    /\ images_MTF = Unbound
    /\ label_names = <<>>
    /\ images = Unbound
    /\ printed = "none"
    /\ ret = "none"
    /\ labeller_calls = 0
    /\ transform_calls = 0

\* Window alignment: every series length, window pair and basis, labels
\* cycling through the three categories.
InitAlign ==
    InitWith({Ramp(n, f) : n \in 0..MaxN, f \in {1, 5}},
             1..MaxL, 0..MaxW,
             {StrArg(GASFName), ListArg(<<GADFName, MTFName>>)},
             {0}, BOOLEAN,
             {Cycle(n, r) : n \in 0..MaxN, r \in 0..2},
             {0})

\* Label encoding: every labeller answer over the three categories and a
\* foreign one, under the label window of the module's own example.
InitEncode ==
    InitWith({Ramp(n, 1) : n \in 0..MaxN},
             {3}, 1..MaxW,
             {StrArg(GASFName)},
             {0}, BOOLEAN,
             SeqUpTo(AllLabels, MaxN),
             {0})

\* Strategy selection and stacking: every selection, padding and RP size.
InitStack ==
    InitWith({Ramp(MaxN, 1)},
             {3}, {2, MaxN},
             Selections,
             0..MaxPad, BOOLEAN,
             {Cycle(MaxN, 0)},
             {0, 1})

\* ----------------------------------------------------------------- actions
\* if image_window_size < np.ceil(label_window_size/2): print(...); return()
CheckWindow ==
    /\ pc = "check_window"
    /\ IF image_window_size < CeilHalf(label_window_size)
       THEN /\ printed' = "window"
            /\ ret' = "empty_tuple"
            /\ pc' = "done"
       ELSE /\ pc' = "label"
            /\ UNCHANGED <<printed, ret>>
    /\ UNCHANGED <<args, locals, labeller_calls, transform_calls>>

\* series = ...; local_min_max(series, label_window_size); the one-hot
\* encoding with its columns put in the order Sell, Buy, Hold.
Encode ==
    /\ pc = "label"
    /\ series' = data
    /\ labeller_calls' = labeller_calls + 1
    /\ labelled_pd' = [Series |-> data, Strategy |-> labeller]
    /\ LET d == GetDummies(labeller)
       IN IF HasColumns(d, CanonicalColumns)
          THEN /\ dummies' = SelectColumns(d, CanonicalColumns)
               /\ label_colnames' = CanonicalColumns
               /\ pc' = "align"
               /\ ret' = ret
          ELSE /\ dummies' = d
               /\ label_colnames' = label_colnames
               /\ pc' = "done"
               /\ ret' = "KeyError"
    /\ UNCHANGED <<args, image_labels, price_at_image, images_GASF, images_GADF,
                   images_RP, images_MTF, label_names, images, printed,
                   transform_calls>>

\* image_labels and price_at_image: the rows from the basis' first index to
\* -np.int(label_window_size/2); the prices reshaped to one column.
Align ==
    /\ pc = "align"
    /\ LET start == LabelStart(image_window_size, use_returns)
           stop == SliceStop(label_window_size)
           prices == PySlice(labelled_pd.Series, start, stop)
       IN /\ image_labels' = PySlice(dummies.rows, start, stop)
          /\ price_at_image' = [i \in 1..Len(prices) |-> <<prices[i]>>]
    /\ pc' = "returns"
    /\ UNCHANGED <<args, series, labelled_pd, dummies, label_colnames,
                   images_GASF, images_GADF, images_RP, images_MTF, label_names,
                   images, printed, ret, labeller_calls, transform_calls>>

\* if use_returns == True: series = series[1:]/series[:-1] - 1
Returns ==
    /\ pc = "returns"
    /\ series' = IF use_returns THEN ReturnSeries(series) ELSE series
    /\ pc' = "GASF"
    /\ UNCHANGED <<args, labelled_pd, dummies, label_colnames, image_labels,
                   price_at_image, images_GASF, images_GADF, images_RP,
                   images_MTF, label_names, images, printed, ret,
                   labeller_calls, transform_calls>>

\* The series every transform is handed: series[:-np.int(label_window_size/2)]
Trimmed == PySlice(series, 0, SliceStop(label_window_size))

\* if "GASF" in image_trf_strat: images_GASF = np.array(GASF(...))
TransformGASF ==
    /\ pc = "GASF"
    /\ IF PyIn(GASFName, image_trf_strat)
       THEN /\ images_GASF' = TransformImages(GASFName, Trimmed,
                                              image_window_size, image_window_size)
            /\ transform_calls' = transform_calls + 1
       ELSE UNCHANGED <<images_GASF, transform_calls>>
    /\ pc' = "GADF"
    /\ UNCHANGED <<args, series, labelled_pd, dummies, label_colnames,
                   image_labels, price_at_image, images_GADF, images_RP,
                   images_MTF, label_names, images, printed, ret, labeller_calls>>

\* if "GADF" in image_trf_strat: images_GADF = np.array(GADF(...))
TransformGADF ==
    /\ pc = "GADF"
    /\ IF PyIn(GADFName, image_trf_strat)
       THEN /\ images_GADF' = TransformImages(GADFName, Trimmed,
                                              image_window_size, image_window_size)
            /\ transform_calls' = transform_calls + 1
       ELSE UNCHANGED <<images_GADF, transform_calls>>
    /\ pc' = "RP"
    /\ UNCHANGED <<args, series, labelled_pd, dummies, label_colnames,
                   image_labels, price_at_image, images_GASF, images_RP,
                   images_MTF, label_names, images, printed, ret, labeller_calls>>

\* if 'RP' in image_trf_strat: images_RP = np.array(RP(..., padding = padding_RP))
TransformRP ==
    /\ pc = "RP"
    /\ IF PyIn(RPName, image_trf_strat)
       THEN /\ images_RP' = TransformImages(RPName, Trimmed, image_window_size,
                                image_window_size - rp_shrink + padding_RP)
            /\ transform_calls' = transform_calls + 1
       ELSE UNCHANGED <<images_RP, transform_calls>>
    /\ pc' = "MTF"
    /\ UNCHANGED <<args, series, labelled_pd, dummies, label_colnames,
                   image_labels, price_at_image, images_GASF, images_GADF,
                   images_MTF, label_names, images, printed, ret, labeller_calls>>

\* if 'MTF' in image_trf_strat: images_MTF = np.array(MTF(...))
TransformMTF ==
    /\ pc = "MTF"
    /\ IF PyIn(MTFName, image_trf_strat)
       THEN /\ images_MTF' = TransformImages(MTFName, Trimmed,
                                             image_window_size, image_window_size)
            /\ transform_calls' = transform_calls + 1
       ELSE UNCHANGED <<images_MTF, transform_calls>>
    /\ pc' = "check_empty"
    /\ UNCHANGED <<args, series, labelled_pd, dummies, label_colnames,
                   image_labels, price_at_image, images_GASF, images_GADF,
                   images_RP, label_names, images, printed, ret, labeller_calls>>

\* if len(image_trf_strat)==0: print(...); return()
CheckEmpty ==
    /\ pc = "check_empty"
    /\ IF PyLen(image_trf_strat) = 0
       THEN /\ printed' = "strategy"
            /\ ret' = "empty_tuple"
            /\ pc' = "done"
       ELSE /\ pc' = "label_names"
            /\ UNCHANGED <<printed, ret>>
    /\ UNCHANGED <<args, locals, labeller_calls, transform_calls>>

\* label_names = {index of "Sell": "Sell", index of "Buy": "Buy", ...}
LabelNames ==
    /\ pc = "label_names"
    /\ label_names' =
          [k \in {IndexOf(label_colnames, c) - 1 : c \in Range(CanonicalColumns)}
             |-> label_colnames[k + 1]]
    /\ pc' = "stack"
    /\ UNCHANGED <<args, series, labelled_pd, dummies, label_colnames,
                   image_labels, price_at_image, images_GASF, images_GADF,
                   images_RP, images_MTF, images, printed, ret, labeller_calls,
                   transform_calls>>

\* A list of two or more names: eval each images_<name>, stack channels
\* last.  Anything else: eval("images_" + image_trf_strat), which is a
\* str + list TypeError for a list.  Then return the five results.
Stack ==
    /\ pc = "stack"
    /\ pc' = "done"
    /\ IF image_trf_strat.type = "list" /\ PyLen(image_trf_strat) > 1
       THEN LET members == [k \in 1..Len(image_trf_strat.list) |->
                              EvalImages(image_trf_strat.list[k], LocalImages)]
            IN IF \E k \in 1..Len(members) : ~members[k].bound
               THEN ret' = "NameError" /\ images' = images
               ELSE IF ~ShapesAgree(members)
               THEN ret' = "ValueError" /\ images' = images
               ELSE ret' = "dataset" /\ images' = MoveAxis(members)
       ELSE IF image_trf_strat.type = "list"
       THEN ret' = "TypeError" /\ images' = images
       ELSE LET value == EvalImages(image_trf_strat.str, LocalImages)
            IN IF ~value.bound
               THEN ret' = "NameError" /\ images' = images
               ELSE ret' = "dataset" /\ images' = value
    /\ UNCHANGED <<args, series, labelled_pd, dummies, label_colnames,
                   image_labels, price_at_image, images_GASF, images_GADF,
                   images_RP, images_MTF, label_names, printed, labeller_calls,
                   transform_calls>>

Next ==
    \/ CheckWindow
    \/ Encode
    \/ Align
    \/ Returns
    \/ TransformGASF
    \/ TransformGADF
    \/ TransformRP
    \/ TransformMTF
    \/ CheckEmpty
    \/ LabelNames
    \/ Stack

SpecAlign == InitAlign /\ [][Next]_vars
SpecEncode == InitEncode /\ [][Next]_vars
SpecStack == InitStack /\ [][Next]_vars

\* ------------------------------------------------- vocabulary of the claims
N == Len(data)
\* W < ceil(L/2) for integers W and L.
WindowTooSmall == 2 * image_window_size < label_window_size
\* Both windows no longer than the series.
WindowsFit == label_window_size <= N /\ image_window_size <= N
\* The one-hot row of a label, columns Sell, Buy, Hold.
OneHot(l) == <<IF l = "Sell" THEN 1 ELSE 0, IF l = "Buy" THEN 1 ELSE 0,
               IF l = "Hold" THEN 1 ELSE 0>>
\* 1-based position in data of the last timestamp output i depends on:
\* 0-based W-1+(i-1) on prices, W+(i-1) on returns.
LastStamp(i) ==
    IF use_returns THEN image_window_size + i ELSE image_window_size + i - 1
\* The W samples ending at that timestamp: prices, or the returns computed
\* from consecutive prices.
ExpectedWindow(i) ==
    [k \in 1..image_window_size |->
        IF use_returns
        THEN [num |-> data[i + k] - data[i + k - 1], den |-> data[i + k - 1]]
        ELSE data[i + k - 1]]
Stacked == image_trf_strat.type = "list" /\ Len(image_trf_strat.list) > 1
\* The images at output index i, one per channel.
Channels(i) == IF Stacked THEN Range(images.data[i]) ELSE {images.data[i]}
\* The elements of s at the 0-based indices start .. stop-1.
IdealSlice(s, start, stop) ==
    IF start < stop THEN SubSeq(s, start + 1, Min(stop, Len(s))) ELSE <<>>
\* The names the caller asked for.
Requested ==
    IF image_trf_strat.type = "str"
    THEN (IF image_trf_strat.str = <<>> THEN {} ELSE {image_trf_strat.str})
    ELSE Range(image_trf_strat.list)

\* ------------------------------------------------------------------ claims
\* C1: a successful call with an odd label window returns as many images as
\* label rows and as many label rows as prices.
C1_LengthsAgree ==
    (ret = "dataset" /\ Odd(label_window_size)) =>
        /\ images.shape[1] = Len(image_labels)
        /\ Len(image_labels) = Len(price_at_image)

C1_Witness ==
    /\ ret = "dataset" /\ Odd(label_window_size) /\ label_window_size > 1
    /\ Stacked
    /\ images.shape[1] >= 2

\* C2: at every output index of a successful call the price is the series
\* value at the last timestamp the image's window depends on, the label row
\* is the one-hot label of that timestamp, and every channel's image encodes
\* the W samples ending there.
C2_SameTimestamp ==
    (ret = "dataset" /\ Odd(label_window_size)) =>
        \A i \in (1..images.shape[1]) \cup DOMAIN image_labels
                 \cup DOMAIN price_at_image :
            /\ i <= images.shape[1]
            /\ i \in DOMAIN image_labels
            /\ i \in DOMAIN price_at_image
            /\ LastStamp(i) \in 1..N
            /\ price_at_image[i] = <<data[LastStamp(i)]>>
            /\ image_labels[i] = OneHot(labeller[LastStamp(i)])
            /\ \A img \in Channels(i) : img.window = ExpectedWindow(i)

C2_Witness ==
    /\ ret = "dataset" /\ use_returns /\ label_window_size = 3
    /\ Len(price_at_image) >= 2
    /\ price_at_image[2] = <<data[image_window_size + 2]>>

\* C3: for an odd label window the label and price arrays are the rows of
\* the per-timestamp arrays at indices start .. N - floor(L/2) - 1, with
\* start = W-1 on prices and W on returns.
C3_SliceBounds ==
    (pc = "returns" /\ Odd(label_window_size)) =>
        LET start == IF use_returns THEN image_window_size
                     ELSE image_window_size - 1
            stop == N - (label_window_size \div 2)
        IN /\ image_labels = IdealSlice(dummies.rows, start, stop)
           /\ price_at_image =
                 [i \in 1..Len(IdealSlice(data, start, stop)) |->
                     <<IdealSlice(data, start, stop)[i]>>]

\* C4: an image window below half the label window ends the call with the
\* window message and the empty result, before the labeller or any
\* transform is called.
C4_WindowRejected ==
    (pc # "check_window" /\ WindowTooSmall) =>
        /\ pc = "done"
        /\ ret = "empty_tuple"
        /\ printed = "window"
        /\ labeller_calls = 0
        /\ transform_calls = 0

C4_Witness ==
    /\ pc = "done" /\ WindowTooSmall /\ printed = "window"
    /\ image_window_size >= 1

\* C5: whatever subset of Sell, Buy, Hold the labeller's answer uses, a call
\* with valid windows and strategy returns label rows of three columns in
\* the order Sell, Buy, Hold, and label_names 0: Sell, 1: Buy, 2: Hold.
C5_FixedColumns ==
    (pc = "done" /\ ~WindowTooSmall /\ WindowsFit /\ labeller # <<>>
        /\ Range(labeller) \subseteq Range(CanonicalColumns)) =>
        /\ ret = "dataset"
        /\ label_colnames = CanonicalColumns
        /\ \A i \in DOMAIN image_labels : Len(image_labels[i]) = 3
        /\ label_names = (0 :> "Sell") @@ (1 :> "Buy") @@ (2 :> "Hold")

\* C6: with a list of two or more strategy names, channel k of image i is
\* image i of the k-th listed strategy.
C6_ChannelOrder ==
    (ret = "dataset" /\ Stacked /\ Requested \subseteq ValidNames) =>
        \A i \in 1..images.shape[1] : \A k \in 1..Len(image_trf_strat.list) :
            /\ images.data[i][k].trf = image_trf_strat.list[k]
            /\ images.data[i][k] = LocalImages[image_trf_strat.list[k]].data[i]

C6_Witness ==
    /\ ret = "dataset"
    /\ image_trf_strat = ListArg(<<RPName, GASFName, MTFName>>)
    /\ images.shape[1] >= 1
    /\ images.data[1][1].trf = RPName

\* C7: one strategy, named by a string or by a one-element list, returns
\* that strategy's array as it is; two or more return an array with one
\* more, trailing, axis as long as the list.
C7_SingleOrStacked ==
    (pc = "done" /\ ~WindowTooSmall /\ Requested \subseteq ValidNames
        /\ Requested # {}) =>
        IF Stacked
        THEN ret = "dataset" =>
                /\ Len(images.shape) =
                      Len(LocalImages[image_trf_strat.list[1]].shape) + 1
                /\ images.shape[Len(images.shape)] = Len(image_trf_strat.list)
        ELSE /\ ret = "dataset"
             /\ \A name \in Requested : images = LocalImages[name]

\* C8: a request naming anything but GASF, GADF, RP, MTF ends in an error,
\* and not in the report an empty selection gets.
C8_UnknownNameFails ==
    (pc = "done" /\ ~WindowTooSmall /\ ~(Requested \subseteq ValidNames)) =>
        /\ ret # "dataset"
        /\ ~(ret = "empty_tuple" /\ printed = "strategy")

C10_ForeignLabelFails ==
    (pc = "done" /\ ~WindowTooSmall /\ WindowsFit
        /\ \E t \in DOMAIN labeller : labeller[t] = "Other") =>
        /\ ret # "dataset"
        /\ \A i \in DOMAIN image_labels : \E c \in 1..3 : image_labels[i][c] = 1

====
